---- MODULE Spec2Model ----
(***************************************************************************)
(* Model of bin/check_samplesheet_vcf.py: one run of main() is a walk      *)
(* through the program positions                                           *)
(*   main -> sniff -> header -> rows -> unique -> open -> write -> done.   *)
(* Text values (cells of the sheet) are sequences of one-character         *)
(* strings, so that str.endswith and the f-string of the rename are        *)
(* computed on characters.  Column names are plain strings: the program    *)
(* only compares them for equality.                                        *)
(* The csv reader is read as the program reads it: the header when         *)
(* DictReader.fieldnames is first used, each data row when the for loop    *)
(* asks for it.  Every data row carries a string for each header column;   *)
(* it may carry extra cells, which DictReader stores under the key None.   *)
(***************************************************************************)
EXTENDS Integers, Sequences, FiniteSets

VARIABLES
    pc,          \* position of the run
    run,         \* number of the run (the tool may be run again on its output)
    isFile,      \* args.file_in.is_file()
    feed,        \* content of file_in when it is the previous run's output
    outFile0,    \* file_out as it was when the run started
    outFile,     \* file_out now: [exists, lines]
    outDir,      \* file_out.parent was created by main
    sniffed,     \* what sniff_format did: "none", "ok", "no_header", "csv_error"
    fieldnames,  \* reader.fieldnames
    inRows,      \* the data rows the reader has yielded so far, in order
    seen,        \* RowChecker._seen
    modified,    \* RowChecker.modified
    exitCode,    \* process exit status, NoExit while running
    log,         \* records emitted through the logger
    traceback,   \* type of the exception that left main unhandled, or "none"
    prevOut      \* lines of the previous run's output

vars == <<pc, run, isFile, feed, outFile0, outFile, outDir, sniffed, fieldnames,
          inRows, seen, modified, exitCode, log, traceback, prevOut>>

----------------------------------------------------------------------------
(* Bounds *)

MaxRows == 2

MaxRuns == 2

----------------------------------------------------------------------------
(* Text *)

Range(s) == {s[i] : i \in 1..Len(s)}

\* str.endswith(suffix)
EndsWith(s, suffix) ==
    /\ Len(s) >= Len(suffix)
    /\ SubSeq(s, Len(s) - Len(suffix) + 1, Len(s)) = suffix

Digits == <<"0", "1", "2", "3", "4", "5", "6", "7", "8", "9">>

RECURSIVE IntToStr(_)
\* str(n) of a natural number, as the f-string formats seen[sample]
IntToStr(n) ==
    IF n < 10 THEN <<Digits[n + 1]>>
    ELSE IntToStr(n \div 10) \o <<Digits[(n % 10) + 1]>>

VcfSuffix == <<".", "v", "c", "f", ".", "g", "z">>

JsonSuffix == <<".", "j", "s", "o", "n">>

TraitsSuffix == <<"_", "t", "r", "a", "i", "t", "s", "-", "j", "s", "o", "n">> \o JsonSuffix

AncestrySuffix ==
    <<"_", "a", "n", "c", "e", "s", "t", "r", "y", "-", "j", "s", "o", "n">> \o JsonSuffix

----------------------------------------------------------------------------
(* The sheets the reader may yield *)

Samples == {<<"S", "1">>, <<"S", "2">>}

VcfValues ==
    { <<"a">> \o VcfSuffix,
      <<"b">> \o VcfSuffix,
      <<"a", ".", "v", "c", "f">>,
      <<"a">> \o VcfSuffix \o <<".", "t", "b", "i">> }

TraitsValues ==
    { <<"a">> \o TraitsSuffix,
      <<"a">> \o JsonSuffix,
      <<"a">> \o AncestrySuffix }

AncestryValues ==
    { <<"a">> \o AncestrySuffix,
      <<"a">> \o JsonSuffix,
      <<"a">> \o TraitsSuffix }

OtherValues == {<<"x">>}

Headers ==
    { <<"sample", "vcf", "traits", "ancestry">>,
      <<"sample", "vcf", "traits", "ancestry", "notes">>,
      <<"vcf", "sample", "traits", "ancestry">>,
      <<"sample", "vcf", "traits", "ancestry", "single_end">>,
      <<"sample", "vcf", "traits">>,
      <<"sample">> }

ValuesOf(column) ==
    CASE column = "sample" -> Samples
      [] column = "vcf" -> VcfValues
      [] column = "traits" -> TraitsValues
      [] column = "ancestry" -> AncestryValues
      [] OTHER -> OtherValues

\* the rows of cells a sheet with header h may hold: a cell per column and
\* at most one cell more
RawRows(h) ==
    LET full == {r \in [1..Len(h) -> UNION {ValuesOf(h[i]) : i \in 1..Len(h)}] :
                    \A i \in 1..Len(h) : r[i] \in ValuesOf(h[i])}
    IN  full \cup {r \o <<x>> : r \in full, x \in OtherValues}

NoFile == [exists |-> FALSE, lines |-> <<>>]

OldFile == [exists |-> TRUE, lines |-> << <<"o", "l", "d">> >>]

NoFeed == [on |-> FALSE, header |-> <<>>, rows |-> <<>>]

NoExit == -1

----------------------------------------------------------------------------
(* csv.DictReader and csv.DictWriter *)

IndexOf(h, k) == CHOOSE i \in 1..Len(h) : h[i] = k

\* the dict DictReader builds from a row of cells: dict(zip(fieldnames, row)),
\* and the cells beyond the header under restkey (None); rest = <<>> stands
\* for a dict without that key
DictRow(h, raw) ==
    [cells |-> [k \in Range(h) |-> raw[IndexOf(h, k)]],
     rest  |-> SubSeq(raw, Len(h) + 1, Len(raw))]

\* DictWriter._dict_to_list with extrasaction = "raise": the keys of the row
\* that are no fieldnames; only the restkey can be one
WrongFields(row) == row.rest # <<>>

\* DictWriter._dict_to_list: rowdict.get(key, restval) for key in fieldnames
DictToList(header, row) ==
    [i \in 1..Len(header) |->
        IF header[i] \in DOMAIN row.cells THEN row.cells[header[i]] ELSE <<>>]

----------------------------------------------------------------------------
(* RowChecker *)

RequiredColumns == {"sample", "vcf", "traits", "ancestry"}

NoError == [kind |-> "none", value |-> <<>>]

\* _validate_sample with the traits value tested against the ".json" of
\* VALID_FORMATS instead of the full suffix
ValidateSampleJson(row) ==
    IF ~EndsWith(row.cells["vcf"], VcfSuffix)
    THEN [kind |-> "vcf", value |-> row.cells["vcf"]]
    ELSE IF ~EndsWith(row.cells["traits"], JsonSuffix)
    THEN [kind |-> "traits", value |-> row.cells["traits"]]
    ELSE IF ~EndsWith(row.cells["ancestry"], AncestrySuffix)
    THEN [kind |-> "ancestry", value |-> row.cells["ancestry"]]
    ELSE NoError

\* RowChecker._validate_sample: the AssertionError it raises, or NoError
ValidateSample(row) ==
    IF ~EndsWith(row.cells["vcf"], VcfSuffix)
    THEN [kind |-> "vcf", value |-> row.cells["vcf"]]
    ELSE IF ~EndsWith(row.cells["traits"], TraitsSuffix)
    THEN [kind |-> "traits", value |-> row.cells["traits"]]
    ELSE IF ~EndsWith(row.cells["ancestry"], AncestrySuffix)
    THEN [kind |-> "ancestry", value |-> row.cells["ancestry"]]
    ELSE NoError

\* the test of validate_unique_samples made on the pairs of sample and vcf,
\* as its docstring words it
NotUniquePairs(seenSet, rows) ==
    Cardinality({<<rows[i].cells["sample"], rows[i].cells["vcf"]>> : i \in 1..Len(rows)})
        # Len(rows)

\* the test of validate_unique_samples
NotUnique(seenSet, rows) == Cardinality(seenSet) # Len(rows)

\* the rename with the counter read one too high
SampleNameOffByOne(sample, n) == sample \o <<"_", "T">> \o IntToStr(n + 1)

\* f"{sample}_T{seen[sample]}"
SampleName(sample, n) == sample \o <<"_", "T">> \o IntToStr(n)

\* seen[sample] after the loop of validate_unique_samples has handled rows[i]
Occurrence(rows, i) ==
    Cardinality({j \in 1..i : rows[j].cells["sample"] = rows[i].cells["sample"]})

\* the loop of validate_unique_samples storing the new name under the vcf key
RenameAllIntoVcf(rows) ==
    [i \in 1..Len(rows) |->
        [rows[i] EXCEPT !.cells["vcf"] =
            SampleName(rows[i].cells["sample"], Occurrence(rows, i))]]

\* the loop of validate_unique_samples over self.modified
RenameAll(rows) ==
    [i \in 1..Len(rows) |->
        [rows[i] EXCEPT !.cells["sample"] = SampleName(@, Occurrence(rows, i))]]

\* the line number without the header line counted
LineNoHeaderless(i) == i + 1

\* the line number of the diagnostic of the i-th row (i counted from 0)
LineNo(i) == i + 2

\* header = list(reader.fieldnames); header.insert(1, "single_end")
OutHeader(h) ==
    IF Len(h) = 0 THEN <<"single_end">>
    ELSE <<h[1], "single_end">> \o SubSeq(h, 2, Len(h))

Diag(level, kind, value, line) ==
    [level |-> level, kind |-> kind, value |-> value, line |-> line]

----------------------------------------------------------------------------
(* The run *)

Init ==
    /\ pc = "main"
    /\ run = 1
    /\ isFile \in BOOLEAN
    /\ feed = NoFeed
    /\ outFile0 \in {NoFile, OldFile}
    /\ outFile = outFile0
    /\ outDir = FALSE
    /\ sniffed = "none"
    /\ fieldnames = <<>>
    /\ inRows = <<>>
    /\ seen = {}
    /\ modified = <<>>
    /\ exitCode = NoExit
    /\ log = <<>>
    /\ traceback = "none"
    /\ prevOut = <<>>

\* main leaving with status 1 when file_in is no file
MainExitOne ==
    /\ pc = "main"
    /\ IF ~isFile
       THEN /\ log' = Append(log, Diag("ERROR", "not_found", <<>>, 0))
            /\ exitCode' = 1
            /\ pc' = "done"
            /\ UNCHANGED outDir
       ELSE /\ outDir' = TRUE
            /\ pc' = "sniff"
            /\ UNCHANGED <<log, exitCode>>
    /\ UNCHANGED <<run, isFile, feed, outFile0, outFile, sniffed, fieldnames,
                   inRows, seen, modified, traceback, prevOut>>

\* main: the existence check of file_in, then the mkdir of file_out.parent
Main ==
    /\ pc = "main"
    /\ IF ~isFile
       THEN /\ log' = Append(log, Diag("ERROR", "not_found", <<>>, 0))
            /\ exitCode' = 2
            /\ pc' = "done"
            /\ UNCHANGED outDir
       ELSE /\ outDir' = TRUE
            /\ pc' = "sniff"
            /\ UNCHANGED <<log, exitCode>>
    /\ UNCHANGED <<run, isFile, feed, outFile0, outFile, sniffed, fieldnames,
                   inRows, seen, modified, traceback, prevOut>>

\* sniff_format: csv.Sniffer is a heuristic of the library; its three
\* outcomes are a header and a dialect, no header, and csv.Error
SniffFormat ==
    /\ pc = "sniff"
    /\ \E r \in {"ok", "no_header", "csv_error"} :
        /\ sniffed' = r
        /\ CASE r = "ok" ->
                  /\ pc' = "header"
                  /\ UNCHANGED <<log, exitCode, traceback>>
             [] r = "no_header" ->
                  /\ log' = Append(log, Diag("CRITICAL", "no_header", <<>>, 0))
                  /\ exitCode' = 1
                  /\ pc' = "done"
                  /\ UNCHANGED traceback
             [] r = "csv_error" ->
                  /\ traceback' = "csv.Error"
                  /\ exitCode' = 1
                  /\ pc' = "done"
                  /\ UNCHANGED log
    /\ UNCHANGED <<run, isFile, feed, outFile0, outFile, outDir, fieldnames,
                   inRows, seen, modified, prevOut>>

\* the header check of check_samplesheet, and RowChecker() after it
CheckHeader ==
    /\ pc = "header"
    /\ \E h \in (IF feed.on THEN {feed.header} ELSE Headers) :
        /\ fieldnames' = h
        /\ IF ~(RequiredColumns \subseteq Range(h))
           THEN /\ log' = Append(log, Diag("CRITICAL", "columns", <<>>, 0))
                /\ exitCode' = 1
                /\ pc' = "done"
           ELSE /\ pc' = "rows"
                /\ UNCHANGED <<log, exitCode>>
    /\ seen' = {}
    /\ modified' = <<>>
    /\ UNCHANGED <<run, isFile, feed, outFile0, outFile, outDir, sniffed,
                   inRows, traceback, prevOut>>

\* one turn of the loop over the reader: validate_and_transform(row), and
\* the handler of its AssertionError
ValidateRow ==
    /\ pc = "rows"
    /\ \E raw \in (IF feed.on
                   THEN {feed.rows[j] : j \in {Len(inRows) + 1} \cap DOMAIN feed.rows}
                   ELSE IF Len(inRows) < MaxRows THEN RawRows(fieldnames) ELSE {}) :
        LET row == DictRow(fieldnames, raw)
            error == ValidateSample(row)
        IN  /\ inRows' = Append(inRows, raw)
            /\ IF error = NoError
               THEN /\ seen' = seen \cup {row.cells["sample"]}
                    /\ modified' = Append(modified, row)
                    /\ UNCHANGED <<pc, log, exitCode>>
               ELSE /\ log' = Append(log, Diag("CRITICAL", error.kind, error.value,
                                               LineNo(Len(inRows))))
                    /\ exitCode' = 1
                    /\ pc' = "done"
                    /\ UNCHANGED <<seen, modified>>
    /\ UNCHANGED <<run, isFile, feed, outFile0, outFile, outDir, sniffed,
                   fieldnames, traceback, prevOut>>

\* the reader is exhausted
EndOfRows ==
    /\ pc = "rows"
    /\ feed.on => Len(inRows) = Len(feed.rows)
    /\ pc' = "unique"
    /\ UNCHANGED <<run, isFile, feed, outFile0, outFile, outDir, sniffed, fieldnames,
                   inRows, seen, modified, exitCode, log, traceback, prevOut>>

\* checker.validate_unique_samples(), called outside any try
ValidateUniqueSamples ==
    /\ pc = "unique"
    /\ IF NotUnique(seen, modified)
       THEN /\ traceback' = "AssertionError"
            /\ exitCode' = 1
            /\ pc' = "done"
            /\ UNCHANGED modified
       ELSE /\ modified' = RenameAll(modified)
            /\ pc' = "open"
            /\ UNCHANGED <<traceback, exitCode>>
    /\ UNCHANGED <<run, isFile, feed, outFile0, outFile, outDir, sniffed, fieldnames,
                   inRows, seen, log, prevOut>>

\* file_out.open(mode="w") and writer.writeheader()
OpenOutput ==
    /\ pc = "open"
    /\ outFile' = [exists |-> TRUE, lines |-> <<OutHeader(fieldnames)>>]
    /\ pc' = "write"
    /\ UNCHANGED <<run, isFile, feed, outFile0, outDir, sniffed, fieldnames, inRows,
                   seen, modified, exitCode, log, traceback, prevOut>>

\* one turn of the loop over checker.modified: writer.writerow(row)
WriteRow ==
    /\ pc = "write"
    /\ Len(outFile.lines) - 1 < Len(modified)
    /\ LET row == modified[Len(outFile.lines)]
       IN  IF WrongFields(row)
           THEN /\ traceback' = "ValueError"
                /\ exitCode' = 1
                /\ pc' = "done"
                /\ UNCHANGED outFile
           ELSE /\ outFile' = [outFile EXCEPT
                                 !.lines = Append(@, DictToList(OutHeader(fieldnames), row))]
                /\ UNCHANGED <<traceback, exitCode, pc>>
    /\ UNCHANGED <<run, isFile, feed, outFile0, outDir, sniffed, fieldnames, inRows,
                   seen, modified, log, prevOut>>

\* the loop is over, main returns None and sys.exit(None) ends the process
Finish ==
    /\ pc = "write"
    /\ Len(outFile.lines) - 1 = Len(modified)
    /\ exitCode' = 0
    /\ pc' = "done"
    /\ UNCHANGED <<run, isFile, feed, outFile0, outFile, outDir, sniffed, fieldnames,
                   inRows, seen, modified, log, traceback, prevOut>>

\* a line of the output without its column at index 1
DropSingleEnd(line) == <<line[1]>> \o SubSeq(line, 3, Len(line))

\* the tool is run again, on the output of the run that just succeeded
\* without the inserted single_end column, writing to a fresh path
Rerun ==
    /\ pc = "done"
    /\ exitCode = 0
    /\ run < MaxRuns
    /\ run' = run + 1
    /\ pc' = "main"
    /\ feed' = [on |-> TRUE,
                header |-> DropSingleEnd(outFile.lines[1]),
                rows |-> [i \in 1..(Len(outFile.lines) - 1) |->
                             DropSingleEnd(outFile.lines[i + 1])]]
    /\ prevOut' = outFile.lines
    /\ outFile0' \in {NoFile, OldFile}
    /\ outFile' = outFile0'
    /\ outDir' = FALSE
    /\ sniffed' = "none"
    /\ fieldnames' = <<>>
    /\ inRows' = <<>>
    /\ seen' = {}
    /\ modified' = <<>>
    /\ exitCode' = NoExit
    /\ log' = <<>>
    /\ traceback' = "none"
    /\ UNCHANGED isFile

Next ==
    \/ Main
    \/ SniffFormat
    \/ CheckHeader
    \/ ValidateRow
    \/ EndOfRows
    \/ ValidateUniqueSamples
    \/ OpenOutput
    \/ WriteRow
    \/ Finish
    \/ Rerun

Spec == Init /\ [][Next]_vars

----------------------------------------------------------------------------
(* The input of the run, as far as the reader has yielded it *)

HeaderOk == RequiredColumns \subseteq Range(fieldnames)

\* the cell of a row of cells under column k
Cell(raw, k) == raw[IndexOf(fieldnames, k)]

VcfOk(raw) == EndsWith(Cell(raw, "vcf"), VcfSuffix)

TraitsOk(raw) == EndsWith(Cell(raw, "traits"), TraitsSuffix)

AncestryOk(raw) == EndsWith(Cell(raw, "ancestry"), AncestrySuffix)

SuffixesOk(raw) == VcfOk(raw) /\ TraitsOk(raw) /\ AncestryOk(raw)

\* some sample value stands in more than one of the rows read
SampleRepeated ==
    \E i, j \in 1..Len(inRows) :
        i # j /\ Cell(inRows[i], "sample") = Cell(inRows[j], "sample")

\* the number of rows up to the i-th that carry the i-th row's sample
Nth(i) ==
    Cardinality({j \in 1..i : Cell(inRows[j], "sample") = Cell(inRows[i], "sample")})

\* every row read has exactly one cell per header column
WellFormed == \A i \in 1..Len(inRows) : Len(inRows[i]) = Len(fieldnames)

ReadOk == isFile /\ sniffed = "ok" /\ HeaderOk

\* a readable, well-formed sheet whose rows pass every check
ValidInput ==
    /\ ReadOk
    /\ WellFormed
    /\ \A i \in 1..Len(inRows) : SuffixesOk(inRows[i])
    /\ ~SampleRepeated

\* the position in the output of the input column at position j
OutPos(j) == IF j = 1 THEN 1 ELSE j + 1

Failed == exitCode # NoExit /\ exitCode # 0

----------------------------------------------------------------------------
(* Claims *)

\* C1: the output file is written only after the header check, the
\* validation of every row and the uniqueness check have succeeded, and a
\* run that ends in an error leaves the output file as it was before the run
\* (uncreated, or the pre-existing one untouched), never partially written.
C1_NoOutputOnError ==
    /\ outFile # outFile0 =>
          /\ pc \in {"write", "done"}
          /\ ReadOk
          /\ \A i \in 1..Len(inRows) : SuffixesOk(inRows[i])
          /\ ~SampleRepeated
    /\ Failed => outFile = outFile0

\* C2: when every row passes the three suffix checks the run succeeds, and
\* the k rows that carry one sample value receive, in input order, the
\* samples {sample}_T1 .. {sample}_Tk.
C2_RepeatedSamplesNumbered ==
    (/\ pc = "done"
     /\ ReadOk
     /\ WellFormed
     /\ \A i \in 1..Len(inRows) : SuffixesOk(inRows[i]))
    => /\ exitCode = 0
       /\ Len(outFile.lines) = Len(inRows) + 1
       /\ \A i \in 1..Len(inRows) :
             outFile.lines[i + 1][OutPos(IndexOf(fieldnames, "sample"))]
                 = Cell(inRows[i], "sample") \o <<"_", "T">> \o IntToStr(Nth(i))

C4_RowAcceptance ==
    [][(pc = "rows" /\ inRows' # inRows) =>
         LET raw == inRows'[Len(inRows')]
             row == DictRow(fieldnames, raw)
         IN  /\ SuffixesOk(raw) =>
                   /\ seen' = seen \cup {Cell(raw, "sample")}
                   /\ modified' = Append(modified, row)
                   /\ log' = log
                   /\ exitCode' = NoExit
             /\ ~SuffixesOk(raw) =>
                   /\ seen' = seen
                   /\ modified' = modified
                   /\ Len(log') = Len(log) + 1
                   /\ log'[Len(log')].kind =
                         (IF ~VcfOk(raw) THEN "vcf"
                          ELSE IF ~TraitsOk(raw) THEN "traits" ELSE "ancestry")
                   /\ log'[Len(log')].value =
                         (IF ~VcfOk(raw) THEN Cell(raw, "vcf")
                          ELSE IF ~TraitsOk(raw) THEN Cell(raw, "traits")
                          ELSE Cell(raw, "ancestry"))]_vars

C4_Witness ==
    /\ pc = "done"
    /\ Len(modified) = 1
    /\ Len(inRows) = 2
    /\ VcfOk(inRows[2]) /\ ~TraitsOk(inRows[2]) /\ ~AncestryOk(inRows[2])
    /\ log[Len(log)].kind = "traits"

\* C5: rows are validated in input order and the run ends at the first
\* data row that fails a suffix check: if it is the n-th data row, the
\* diagnostic carries line n + 1, no later row is validated, and the run
\* exits non-zero without output.
C5_FirstBadRowEndsRun ==
    ReadOk =>
        \A n \in 1..Len(inRows) :
            ~SuffixesOk(inRows[n]) =>
                /\ n = Len(inRows)
                /\ \A m \in 1..(n - 1) : SuffixesOk(inRows[m])
                /\ Len(modified) = n - 1
                /\ pc = "done"
                /\ Failed
                /\ Len(log) = 1
                /\ log[1].line = n + 1
                /\ outFile = outFile0

C5_Witness ==
    /\ pc = "done"
    /\ Len(inRows) = 2
    /\ ~SuffixesOk(inRows[2])
    /\ log[1].line = 3

\* C6: the exit code is 0 when the sheet is valid and the output was
\* written; 2 when the input path is no regular file, found before anything
\* else is done; 1 for a missing header, an unsniffable dialect, a header
\* lacking a required column (found before any row is validated), a bad
\* suffix on a row, and non-unique samples.
C6_ExitCodes ==
    pc = "done" =>
        /\ ~isFile => /\ exitCode = 2
                      /\ sniffed = "none" /\ ~outDir /\ outFile = outFile0
        /\ exitCode = 2 => ~isFile
        /\ (isFile /\ sniffed \in {"no_header", "csv_error"}) => exitCode = 1
        /\ (isFile /\ sniffed = "ok" /\ ~HeaderOk) => exitCode = 1 /\ inRows = <<>>
        /\ (ReadOk /\ \E i \in 1..Len(inRows) : ~SuffixesOk(inRows[i])) => exitCode = 1
        /\ (ReadOk /\ SampleRepeated /\ \A i \in 1..Len(inRows) : SuffixesOk(inRows[i]))
              => exitCode = 1
        /\ ValidInput => exitCode = 0 /\ Len(outFile.lines) = Len(inRows) + 1
        /\ exitCode = 0 => /\ ReadOk
                           /\ \A i \in 1..Len(inRows) : SuffixesOk(inRows[i])
                           /\ ~SampleRepeated
                           /\ Len(outFile.lines) = Len(inRows) + 1

C6_Witness ==
    /\ pc = "done"
    /\ exitCode = 1
    /\ SampleRepeated

\* C7: for every valid input the output has as many data rows as the input
\* and one column more; its header is the input header with single_end
\* inserted at index 1; the single_end value of every output row is empty.
C7_OutputShape ==
    (pc = "done" /\ ValidInput) =>
        /\ exitCode = 0
        /\ Len(outFile.lines) = Len(inRows) + 1
        /\ \A i \in 1..Len(outFile.lines) : Len(outFile.lines[i]) = Len(fieldnames) + 1
        /\ outFile.lines[1][2] = "single_end"
        /\ \A j \in 1..Len(fieldnames) : outFile.lines[1][OutPos(j)] = fieldnames[j]
        /\ \A i \in 1..Len(inRows) : outFile.lines[i + 1][2] = <<>>

\* C8: validation and renaming change nothing but the sample field: rows
\* are kept in input order, none dropped or duplicated; the sample field is
\* not changed while rows are validated; in the output of a valid input the
\* i-th row equals the i-th input row in every input column but sample.
C8_OnlySampleChanges ==
    /\ (pc \in {"rows", "unique"} /\ ReadOk) =>
          modified = [i \in 1..Len(inRows) |-> DictRow(fieldnames, inRows[i])]
    /\ pc \in {"open", "write"} =>
          /\ Len(modified) = Len(inRows)
          /\ \A i \in 1..Len(inRows) :
                /\ modified[i].rest = DictRow(fieldnames, inRows[i]).rest
                /\ \A k \in Range(fieldnames) \ {"sample"} :
                      modified[i].cells[k] = Cell(inRows[i], k)
    /\ (pc = "done" /\ ValidInput) =>
          /\ exitCode = 0
          /\ Len(outFile.lines) = Len(inRows) + 1
          /\ \A i \in 1..Len(inRows) : \A j \in 1..Len(fieldnames) :
                fieldnames[j] # "sample" => outFile.lines[i + 1][OutPos(j)] = inRows[i][j]

C8_Witness ==
    /\ pc = "done"
    /\ ValidInput
    /\ Len(inRows) = 2
    /\ "notes" \in Range(fieldnames)
    /\ Cell(inRows[1], "vcf") # Cell(inRows[2], "vcf")

C10_ErrorsAreLogged ==
    Failed => Len(log) = 1 /\ traceback = "none"

====
